---- MODULE Spec2Model ----
(***************************************************************************)
(* A model of the cloud helper scripts of this repository.                 *)
(*                                                                         *)
(*   src/aws/imds.py     the credential resolver: token request, role      *)
(*                       listing, per-role credential reads, selection of  *)
(*                       the credential set matching an AccessKeyId        *)
(*   src/aws/s3bucket.py get_s3_client, a caller of the resolver           *)
(*   src/GCP/gbq.py      ensure_dataset and load_dataframe_to_bq           *)
(*                                                                         *)
(* The metadata service and the warehouse are the environment: every       *)
(* response they can give is drawn with \E when the request is made, and   *)
(* each request is recorded, with the response it got, in the log `net`.   *)
(***************************************************************************)
EXTENDS Integers, Sequences, FiniteSets, TLC

VARIABLES
    pc,             \* position inside boto3_session_from_access_key_id
    caller,         \* which entry point started the resolution
    access_key_id,  \* parameter access_key_id
    region_name,    \* parameter region_name
    token,          \* local `token`   (imds.py:140)
    roles,          \* local `roles`   (imds.py:141)
    idx,            \* 1-based position of the for loop over roles (imds.py:143)
    result,         \* what boto3_session_from_access_key_id returned or raised
    client,         \* what get_s3_client returned
    net,            \* the HTTP requests of this resolution, in order, with responses
    ncalls,         \* number of resolutions started so far
    bq_pc,          \* position inside ensure_dataset / load_dataframe_to_bq
    bq_args,        \* the arguments of the running gbq.py call
    dataset,        \* the warehouse's dataset (project_id.dataset_id), or absent
    bq_log,         \* the warehouse API calls of the running call, in order
    bq_result       \* how the running gbq.py call ended

imdsVars == <<pc, caller, access_key_id, region_name, token, roles, idx, result, client, net, ncalls>>
bqVars == <<bq_pc, bq_args, dataset, bq_log, bq_result>>
vars == <<imdsVars, bqVars>>

----------------------------------------------------------------------------
(* Bounds *)

\* longest role-listing body, in lines
MaxLines == 2
\* number of resolutions (calls of an entry point) in one behaviour
MaxInvocations == 2

----------------------------------------------------------------------------
(* Python values *)

\* Python's None (also what json gives for null and dict.get for a missing key)
None == "<None>"
\* no X-aws-ec2-metadata-token header on a request
NoHeader == "<no header>"

\* Python truthiness of an Optional[str]: None and "" are falsy
Truthy(x) == x # None /\ x # ""

----------------------------------------------------------------------------
(* The HTTP layer (requests) *)

\* requests.put / requests.get raised a requests.RequestException
NetErr == [kind |-> "exception"]
HttpResp(s, b) == [kind |-> "response", status_code |-> s, text |-> b]

\* Response.ok / Response.raise_for_status(): an error is a status in 400..599.
\* The responses below carry 200, 304 (a 3xx that requests does not follow,
\* with an empty body) or 404.
ok(r) == ~(400 <= r.status_code /\ r.status_code < 600)

\* token endpoint: bodies of a 200
TokenTexts == {"", "tok1"}
TokenResponses ==
    {NetErr, HttpResp(404, ""), HttpResp(304, "")} \cup {HttpResp(200, t) : t \in TokenTexts}

\* role listing: a body is a sequence of lines; lines may be blank or padded
Lines == {"", "A", " B "}
ListingBodies == UNION {[1..n -> Lines] : n \in 0..MaxLines}
ListingResponses ==
    {NetErr, HttpResp(404, <<>>), HttpResp(304, <<>>)} \cup {HttpResp(200, b) : b \in ListingBodies}

\* str.strip() on the lines above
strip(line) ==
    CASE line = " B " -> "B"
      [] OTHER -> line

\* credential payloads: text that is not JSON, JSON that is no object, and
\* JSON objects with some of the credential fields
NotJson == [json |-> "invalid"]
JsonArray == [json |-> "array"]
JsonObject(o) == [json |-> "object", value |-> o]
AccessKeyIds == {"K1", "K2"}
CredObjects ==
    { << >>,
      [AccessKeyId |-> "K1", Code |-> "Success", SecretAccessKey |-> "s1", Token |-> "t1"],
      [AccessKeyId |-> "K1", Code |-> "Success", SecretAccessKey |-> "s2", Token |-> "t2"],
      [AccessKeyId |-> "K1", Code |-> "Failed", SecretAccessKey |-> "s1", Token |-> "t1"],
      [AccessKeyId |-> "K2", Code |-> "Success", SecretAccessKey |-> "s1", Token |-> "t1"],
      [AccessKeyId |-> "K1", Code |-> "Success", Token |-> "t1"],
      [AccessKeyId |-> "K1", Code |-> "Success", SecretAccessKey |-> "s1"] }
CredBodies == {NotJson, JsonArray} \cup {JsonObject(o) : o \in CredObjects}
CredResponses ==
    {NetErr, HttpResp(404, NotJson), HttpResp(304, NotJson)} \cup {HttpResp(200, b) : b \in CredBodies}

RoleNames == {"A", "B"}
Regions == {None, "us-east-1"}

----------------------------------------------------------------------------
(* Results *)

Pending == [kind |-> "pending"]
Raise(exc, arg) == [kind |-> "raise", exc |-> exc, arg |-> arg]
NoClient == [kind |-> "none"]

\* dict.get(key): None when the key is missing
Get(d, k) == IF k \in DOMAIN d THEN d[k] ELSE None

\* json.loads(raw) succeeds for any JSON text
json_loads_ok(body) == body.json # "invalid"

\* the test without its Code clause
MatchesIgnoringCode(creds, key) == Get(creds, "AccessKeyId") = key

\* the test of imds.py:145
Matches(creds, key) == Get(creds, "AccessKeyId") = key /\ Get(creds, "Code") = "Success"

\* boto3.Session(...) of imds.py:146-151; creds["SecretAccessKey"] needs the key
boto3_Session(creds, region) ==
    IF "SecretAccessKey" \in DOMAIN creds
    THEN [kind |-> "session",
          aws_access_key_id |-> creds["AccessKeyId"],
          aws_secret_access_key |-> creds["SecretAccessKey"],
          aws_session_token |-> Get(creds, "Token"),
          region_name |-> region]
    ELSE Raise("KeyError", "SecretAccessKey")

\* the request get_instance_metadata sends: the header only for a truthy token
Request(path, tok, resp) ==
    [method |-> "GET", path |-> path,
     header |-> IF Truthy(tok) THEN tok ELSE NoHeader,
     resp |-> resp]

\* the paths under latest/meta-data/ that the resolver reads; neither begins
\* with "/", so path.lstrip("/") (imds.py:64) leaves them as they are
ListingPath == "iam/security-credentials/"
CredPath(role) == "iam/security-credentials/" \o role

\* get_instance_metadata without r.raise_for_status()
MetadataFailsOnlyOnException(resp) == resp.kind = "exception"

\* get_instance_metadata: what the caller gets for a response
MetadataError(resp) ==
    IF resp.kind = "exception" THEN Raise("RequestException", None)
    ELSE Raise("HTTPError", None)
\* requests.get raised, or r.raise_for_status() did (imds.py:65-66)
MetadataFails(resp) == resp.kind = "exception" \/ ~ok(resp)

\* [line.strip() for line in raw.splitlines() if line.strip()]
RECURSIVE RoleNamesOf(_)
RoleNamesOf(lines) ==
    IF lines = <<>> THEN <<>>
    ELSE IF strip(Head(lines)) # ""
         THEN <<strip(Head(lines))>> \o RoleNamesOf(Tail(lines))
         ELSE RoleNamesOf(Tail(lines))

----------------------------------------------------------------------------
(* Entry points *)

\* a new call frame: the locals of an earlier resolution are gone
Fresh(c, key, region, cl) ==
    /\ ncalls < MaxInvocations
    /\ ncalls' = ncalls + 1
    /\ caller' = c
    /\ access_key_id' = key
    /\ region_name' = region
    /\ token' = None
    /\ roles' = <<>>
    /\ idx' = 1
    /\ result' = Pending
    /\ client' = cl
    /\ net' = <<>>

\* a call of boto3_session_from_access_key_id(access_key_id, region_name)
call_boto3_session_from_access_key_id ==
    /\ pc \in {"idle", "done"}
    /\ UNCHANGED bqVars
    /\ \E key \in AccessKeyIds, region \in Regions : Fresh("direct", key, region, NoClient)
    /\ pc' = "get_imds_token"

\* get_s3_client(role_name=R, region_name=...) with a truthy R: the role name
\* is passed as the access_key_id of the resolver (s3bucket.py:22)
call_get_s3_client ==
    /\ pc \in {"idle", "done"}
    /\ UNCHANGED bqVars
    /\ \E role_name \in RoleNames, region \in Regions : Fresh("s3", role_name, region, NoClient)
    /\ pc' = "get_imds_token"

\* get_s3_client with role_name None or "": boto3.client("s3", ...) at once
call_get_s3_client_default ==
    /\ pc \in {"idle", "done"}
    /\ UNCHANGED bqVars
    /\ \E role_name \in {None, ""}, region \in Regions :
          Fresh("s3", role_name, region,
                [kind |-> "client", service |-> "s3", session |-> "default",
                 region_name |-> region])
    /\ pc' = "done"

----------------------------------------------------------------------------
(* The resolver, one action per network call *)

\* get_imds_token that lets the failure of the token request out
get_imds_token_raising ==
    /\ pc = "get_imds_token"
    /\ \E resp \in TokenResponses :
          /\ net' = Append(net, [method |-> "PUT", path |-> "latest/api/token",
                                 header |-> NoHeader, resp |-> resp])
          /\ IF resp.kind = "response" /\ ok(resp)
             THEN token' = resp.text /\ pc' = "get_role_names" /\ UNCHANGED result
             ELSE UNCHANGED token /\ pc' = "done" /\ result' = Raise("RequestException", None)
    /\ UNCHANGED <<caller, access_key_id, region_name, roles, idx, client, ncalls>>
    /\ UNCHANGED bqVars

\* get_imds_token that requests a token only in the first resolution
get_imds_token_cached ==
    /\ pc = "get_imds_token"
    /\ IF ncalls > 1
       THEN UNCHANGED <<net, token>>
       ELSE \E resp \in TokenResponses :
              /\ net' = Append(net, [method |-> "PUT", path |-> "latest/api/token",
                                     header |-> NoHeader, resp |-> resp])
              /\ token' = IF resp.kind = "response" /\ ok(resp) THEN resp.text ELSE None
    /\ pc' = "get_role_names"
    /\ UNCHANGED <<caller, access_key_id, region_name, roles, idx, result, client, ncalls>>
    /\ UNCHANGED bqVars

\* imds.py:140 and get_imds_token (17-36)
get_imds_token ==
    /\ pc = "get_imds_token"
    /\ \E resp \in TokenResponses :
          /\ net' = Append(net, [method |-> "PUT", path |-> "latest/api/token",
                                 header |-> NoHeader, resp |-> resp])
          /\ token' = IF resp.kind = "response" /\ ok(resp) THEN resp.text ELSE None
    /\ pc' = "get_role_names"
    /\ UNCHANGED <<caller, access_key_id, region_name, roles, idx, result, client, ncalls>>
    /\ UNCHANGED bqVars

\* imds.py:141 and get_role_names (84-85)
get_role_names ==
    /\ pc = "get_role_names"
    /\ \E resp \in ListingResponses :
          /\ net' = Append(net, Request(ListingPath, token, resp))
          /\ IF MetadataFails(resp)
             THEN /\ result' = MetadataError(resp)
                  /\ pc' = "done"
                  /\ UNCHANGED roles
             ELSE /\ roles' = RoleNamesOf(resp.text)
                  /\ pc' = "loop"
                  /\ UNCHANGED result
    /\ UNCHANGED <<caller, access_key_id, region_name, token, idx, client, ncalls>>
    /\ UNCHANGED bqVars

\* an iteration whose `raise` sits inside the loop: a role that does not match
\* ends the scan
IterationRaisingInsideLoop(resp, key, region) ==
    IF MetadataFails(resp) THEN MetadataError(resp)
    ELSE IF ~json_loads_ok(resp.text) THEN Raise("JSONDecodeError", None)
    ELSE IF resp.text.json # "object" THEN Raise("AttributeError", "get")
    ELSE IF Matches(resp.text.value, key) THEN boto3_Session(resp.text.value, region)
    ELSE Raise("RuntimeError", key)

\* an iteration that catches the parse error and goes on with the next role
IterationSkippingMalformed(resp, key, region) ==
    IF MetadataFails(resp) THEN MetadataError(resp)
    ELSE IF ~json_loads_ok(resp.text) THEN [kind |-> "next"]
    ELSE IF resp.text.json # "object" THEN Raise("AttributeError", "get")
    ELSE IF Matches(resp.text.value, key) THEN boto3_Session(resp.text.value, region)
    ELSE [kind |-> "next"]

\* what one iteration of the loop does with the response to its read
\* (imds.py:144-151): "next" stands for going on to the next role
Iteration(resp, key, region) ==
    IF MetadataFails(resp) THEN MetadataError(resp)
    ELSE IF ~json_loads_ok(resp.text) THEN Raise("JSONDecodeError", None)
    ELSE IF resp.text.json # "object" THEN Raise("AttributeError", "get")
    ELSE IF Matches(resp.text.value, key) THEN boto3_Session(resp.text.value, region)
    ELSE [kind |-> "next"]

\* s3bucket.py:22-23: session.client("s3")
S3ClientOf(c, out) ==
    IF c = "s3" /\ out.kind = "session"
    THEN [kind |-> "client", service |-> "s3", session |-> out, region_name |-> out.region_name]
    ELSE NoClient

\* one iteration of the for loop (imds.py:143-151)
loop_iteration ==
    /\ pc = "loop"
    /\ idx <= Len(roles)
    /\ \E resp \in CredResponses :
          /\ net' = Append(net, Request(CredPath(roles[idx]), token, resp))
          /\ LET out == Iteration(resp, access_key_id, region_name) IN
                IF out.kind = "next"
                THEN /\ idx' = idx + 1
                     /\ UNCHANGED <<pc, result, client>>
                ELSE /\ result' = out
                     /\ client' = S3ClientOf(caller, out)
                     /\ pc' = "done"
                     /\ UNCHANGED idx
    /\ UNCHANGED <<caller, access_key_id, region_name, token, roles, ncalls>>
    /\ UNCHANGED bqVars

\* the function falls off its end (returns None) when the loop is exhausted
loop_exhausted_returning_None ==
    /\ pc = "loop"
    /\ idx > Len(roles)
    /\ result' = [kind |-> "returned", value |-> None]
    /\ pc' = "done"
    /\ UNCHANGED <<caller, access_key_id, region_name, token, roles, idx, client, net, ncalls>>
    /\ UNCHANGED bqVars

\* the loop is exhausted: imds.py:153
loop_exhausted ==
    /\ pc = "loop"
    /\ idx > Len(roles)
    /\ result' = Raise("RuntimeError", access_key_id)
    /\ pc' = "done"
    /\ UNCHANGED <<caller, access_key_id, region_name, token, roles, idx, client, net, ncalls>>
    /\ UNCHANGED bqVars

ImdsInit ==
    /\ pc = "idle"
    /\ caller = "none"
    /\ access_key_id = None
    /\ region_name = None
    /\ token = None
    /\ roles = <<>>
    /\ idx = 1
    /\ result = Pending
    /\ client = NoClient
    /\ net = <<>>
    /\ ncalls = 0

\* no gbq.py call is running and the dataset does not exist
BqIdle ==
    /\ bq_pc = "idle"
    /\ bq_args = [fn |-> "none"]
    /\ dataset = [exists |-> FALSE]
    /\ bq_log = <<>>
    /\ bq_result = Pending

Init == ImdsInit /\ BqIdle

Next ==
    \/ call_boto3_session_from_access_key_id
    \/ call_get_s3_client
    \/ call_get_s3_client_default
    \/ get_imds_token
    \/ get_role_names
    \/ loop_iteration
    \/ loop_exhausted

Spec == Init /\ [][Next]_vars

----------------------------------------------------------------------------
(* gbq.py: ensure_dataset and load_dataframe_to_bq *)

Locations == {"US", "EU"}
\* a dict of labels: None, the empty dict (both falsy) or a non-empty dict
EmptyLabels == "{}"
LabelArgs == {None, EmptyLabels, "{env: prod}"}
\* the datasets that may already exist, or that another actor may create
ExistingDatasets ==
    {[exists |-> TRUE, location |-> l, labels |-> lb, created_by |-> "other"] :
        l \in Locations, lb \in {EmptyLabels, "{team: data}"}}
Absent == [exists |-> FALSE]

PartitionFields == {None, "event_time"}
ClusteringFields == {<<>>, <<"user_id">>}
CreateDispositions == {"CREATE_IF_NEEDED", "CREATE_NEVER"}
WriteDispositions == {None, "WRITE_APPEND"}

\* _build_bq_load_job_config (gbq.py:111-124); None when nothing was asked for.
\* A key whose value is None stands for a key the dict does not have.
build_bq_load_job_config(partition_field, clustering_fields, create_disposition, write_disposition) ==
    IF ~(Truthy(partition_field) \/ clustering_fields # <<>> \/ Truthy(write_disposition))
       /\ create_disposition = "CREATE_IF_NEEDED"
    THEN [none |-> TRUE]
    ELSE [none |-> FALSE,
          timePartitioning |-> IF Truthy(partition_field) THEN partition_field ELSE None,
          clustering |-> clustering_fields,
          createDisposition |-> IF Truthy(create_disposition) THEN create_disposition ELSE None,
          writeDisposition |-> IF Truthy(write_disposition) THEN write_disposition ELSE None]

\* create_dataset without exists_ok
exists_ok_False == FALSE

\* the exists_ok argument of client.create_dataset (gbq.py:61)
exists_ok == TRUE

\* ensure_dataset(project_id, dataset_id, location=..., labels=...)
call_ensure_dataset ==
    /\ bq_pc = "idle"
    /\ \E location \in Locations, labels \in LabelArgs :
          bq_args' = [fn |-> "ensure_dataset", location |-> location, labels |-> labels]
    /\ bq_pc' = "get_dataset"
    /\ UNCHANGED <<dataset, bq_log, bq_result>>
    /\ UNCHANGED imdsVars

\* load_dataframe_to_bq(df, ...): its first statement is ensure_dataset(project_id,
\* dataset_id, location=location), with no labels (gbq.py:172)
call_load_dataframe_to_bq ==
    /\ bq_pc = "idle"
    /\ \E location \in Locations, pf \in PartitionFields, cf \in ClusteringFields,
          cd \in CreateDispositions, wd \in WriteDispositions :
          bq_args' = [fn |-> "load_dataframe_to_bq", location |-> location, labels |-> None,
                      partition_field |-> pf, clustering_fields |-> cf,
                      create_disposition |-> cd, write_disposition |-> wd]
    /\ bq_pc' = "get_dataset"
    /\ UNCHANGED <<dataset, bq_log, bq_result>>
    /\ UNCHANGED imdsVars

\* where ensure_dataset's caller goes on when it returns
AfterEnsure == IF bq_args.fn = "ensure_dataset" THEN "done" ELSE "to_gbq"
EnsureReturn == IF bq_args.fn = "ensure_dataset" THEN [kind |-> "returned"] ELSE Pending

\* gbq.py:54-56: client.get_dataset(ds_ref); NotFound leads to the create,
\* any other API error propagates
ensure_dataset_get ==
    /\ bq_pc = "get_dataset"
    /\ \/ /\ dataset.exists
          /\ bq_log' = Append(bq_log, [call |-> "get_dataset", outcome |-> "found",
                                       before |-> dataset, after |-> dataset])
          /\ bq_pc' = AfterEnsure
          /\ bq_result' = EnsureReturn
       \/ /\ ~dataset.exists
          /\ bq_log' = Append(bq_log, [call |-> "get_dataset", outcome |-> "NotFound",
                                       before |-> dataset, after |-> dataset])
          /\ bq_pc' = "create_dataset"
          /\ UNCHANGED bq_result
       \/ /\ bq_log' = Append(bq_log, [call |-> "get_dataset", outcome |-> "Forbidden",
                                       before |-> dataset, after |-> dataset])
          /\ bq_pc' = "done"
          /\ bq_result' = Raise("Forbidden", None)
    /\ UNCHANGED <<bq_args, dataset>>
    /\ UNCHANGED imdsVars

\* gbq.py:57-61: the Dataset to create, then client.create_dataset(ds, exists_ok=True):
\* a Conflict (the dataset exists by now) is swallowed when exists_ok
ensure_dataset_create ==
    /\ bq_pc = "create_dataset"
    /\ LET ds == [exists |-> TRUE, location |-> bq_args.location,
                  labels |-> IF Truthy(bq_args.labels) /\ bq_args.labels # EmptyLabels
                             THEN bq_args.labels ELSE EmptyLabels,
                  created_by |-> "ensure_dataset"] IN
          IF ~dataset.exists
          THEN /\ dataset' = ds
               /\ bq_log' = Append(bq_log, [call |-> "create_dataset", outcome |-> "created",
                                            before |-> dataset, after |-> ds])
               /\ bq_pc' = AfterEnsure
               /\ bq_result' = EnsureReturn
          ELSE /\ UNCHANGED dataset
               /\ bq_log' = Append(bq_log, [call |-> "create_dataset", outcome |-> "Conflict",
                                            before |-> dataset, after |-> dataset])
               /\ IF exists_ok
                  THEN /\ bq_pc' = AfterEnsure
                       /\ bq_result' = EnsureReturn
                  ELSE /\ bq_pc' = "done"
                       /\ bq_result' = Raise("Conflict", None)
    /\ UNCHANGED bq_args
    /\ UNCHANGED imdsVars

\* gbq.py:174-195: the load job is submitted
to_gbq ==
    /\ bq_pc = "to_gbq"
    /\ bq_log' = Append(bq_log,
          [call |-> "to_gbq", outcome |-> "submitted", before |-> dataset, after |-> dataset,
           configuration |-> build_bq_load_job_config(bq_args.partition_field,
                                bq_args.clustering_fields, bq_args.create_disposition,
                                bq_args.write_disposition)])
    /\ bq_pc' = "done"
    /\ bq_result' = [kind |-> "returned"]
    /\ UNCHANGED <<bq_args, dataset>>
    /\ UNCHANGED imdsVars

\* another actor creates the same dataset, at any moment
other_actor_creates ==
    /\ ~dataset.exists
    /\ dataset' \in ExistingDatasets
    /\ UNCHANGED <<bq_pc, bq_args, bq_log, bq_result>>
    /\ UNCHANGED imdsVars

\* the dataset may exist before the call
InitBQ ==
    /\ ImdsInit
    /\ bq_pc = "idle"
    /\ bq_args = [fn |-> "none"]
    /\ dataset \in {Absent} \cup ExistingDatasets
    /\ bq_log = <<>>
    /\ bq_result = Pending

NextBQ ==
    \/ call_ensure_dataset
    \/ call_load_dataframe_to_bq
    \/ ensure_dataset_get
    \/ ensure_dataset_create
    \/ to_gbq
    \/ other_actor_creates

SpecBQ == InitBQ /\ [][NextBQ]_vars

----------------------------------------------------------------------------
(* Reading the log of a resolution *)

\* number of credential reads issued so far: net[1] is the token request,
\* net[2] the role listing, net[2+i] the read for the i-th listed role
NCredReads == IF Len(net) > 2 THEN Len(net) - 2 ELSE 0
CredRead(i) == net[2 + i]

\* the read was answered, with a 2xx status
ReadOk(r) == r.kind = "response" /\ 200 <= r.status_code /\ r.status_code < 300
\* ... and its body is a JSON object (a key/value record)
WellFormed(r) == ReadOk(r) /\ r.text.json = "object"
\* a credential set for `key` whose status is Success
SetMatches(c, key) ==
    /\ "AccessKeyId" \in DOMAIN c /\ c.AccessKeyId = key
    /\ "Code" \in DOMAIN c /\ c.Code = "Success"
MatchingRead(i) == WellFormed(CredRead(i).resp) /\ SetMatches(CredRead(i).resp.text.value, access_key_id)
SkippedRead(i) == WellFormed(CredRead(i).resp) /\ ~SetMatches(CredRead(i).resp.text.value, access_key_id)
\* the session that the credential set c stands for
SessionOf(c) ==
    [kind |-> "session", aws_access_key_id |-> c.AccessKeyId,
     aws_secret_access_key |-> c.SecretAccessKey, aws_session_token |-> Get(c, "Token"),
     region_name |-> region_name]

----------------------------------------------------------------------------

(* C1: a session is built only from a credential set whose Code is "Success"
   and whose AccessKeyId is the requested access_key_id: whenever the
   resolver's result is a session, the last read of the resolution served
   such a set and the session carries that set's AccessKeyId. *)
C1_SessionOnlyFromMatchingSuccess ==
    result.kind = "session" =>
        /\ NCredReads >= 1
        /\ LET r == CredRead(NCredReads).resp IN
              /\ r.kind = "response"
              /\ r.text.json = "object"
              /\ Get(r.text.value, "Code") = "Success"
              /\ Get(r.text.value, "AccessKeyId") = access_key_id
              /\ result.aws_access_key_id = access_key_id

\* a session was built while an earlier role of the list had a Failed set
C1_Witness ==
    /\ result.kind = "session"
    /\ NCredReads = 2
    /\ Get(CredRead(1).resp.text.value, "Code") = "Failed"

(* C2: the first role, in listed order, whose set matches the requested key
   with Code "Success" wins: once such a set (holding a SecretAccessKey) has
   been read, the result is the session made of exactly its AccessKeyId,
   SecretAccessKey and Token, no earlier read matched and no later read is
   issued; a role read before it whose well-formed set is Failed or has
   another AccessKeyId ends nothing, the scan goes on with the next listed
   role; reads follow the listed order. *)
C2_FirstMatchingRoleWins ==
    \A i \in 1..NCredReads :
        /\ CredRead(i).path = CredPath(roles[i])
        /\ (MatchingRead(i) /\ "SecretAccessKey" \in DOMAIN CredRead(i).resp.text.value) =>
              /\ pc = "done"
              /\ result = SessionOf(CredRead(i).resp.text.value)
              /\ i = NCredReads
              /\ \A j \in 1..(i - 1) : SkippedRead(j)
        /\ (SkippedRead(i) /\ i = NCredReads) =>
              \/ pc = "loop" /\ idx = i + 1 /\ result = Pending
              \/ pc = "done" /\ i = Len(roles) /\ result.kind = "raise"

\* roles [A, B]: A's set is Failed, B's set matches and B's credentials are returned
C2_Witness ==
    /\ pc = "done"
    /\ roles = <<"A", "B">>
    /\ NCredReads = 2
    /\ SkippedRead(1)
    /\ CredRead(1).resp.text.value = [AccessKeyId |-> "K1", Code |-> "Failed", SecretAccessKey |-> "s1", Token |-> "t1"]
    /\ MatchingRead(2)
    /\ result.kind = "session"
    /\ result.aws_secret_access_key = "s2"

(* C3: when the listing succeeds and no listed role has a matching Success
   set (all reads well-formed), the resolution ends with RuntimeError carrying
   the requested access_key_id, with no session and no client; and a
   RuntimeError is raised only after one read for every listed role. *)
C3_NotFoundAfterFullScan ==
    /\ (/\ pc = "done"
        /\ Len(net) >= 2
        /\ ReadOk(net[2].resp)
        /\ NCredReads = Len(roles)
        /\ \A i \in 1..NCredReads : SkippedRead(i))
       => (result = Raise("RuntimeError", access_key_id) /\ client = NoClient)
    /\ (result.kind = "raise" /\ result.exc = "RuntimeError") =>
          /\ result.arg = access_key_id
          /\ NCredReads = Len(roles)
          /\ \A i \in 1..Len(roles) :
                CredRead(i).path = CredPath(roles[i]) /\ ~MatchingRead(i)

\* two listed roles, both read, neither matches
C3_Witness ==
    /\ result = Raise("RuntimeError", access_key_id)
    /\ Len(roles) = 2
    /\ NCredReads = 2
    /\ SkippedRead(1) /\ SkippedRead(2)

\* the same with the empty role list
C3_WitnessEmpty ==
    /\ result = Raise("RuntimeError", access_key_id)
    /\ roles = <<>>
    /\ Len(net) = 2

\* the token request raised or was answered with an error status
TokenRequestFailed(r) == r.kind = "exception" \/ r.status_code >= 400
\* the token request was answered with a token (a non-empty body)
TokenObtained(r) == r.kind = "response" /\ r.status_code < 400 /\ r.text # ""

\* the result that the listing response and the credential responses of the
\* log determine, computed without the token
RECURSIVE ScanOutcome(_)
ScanOutcome(i) ==
    IF i > Len(roles) THEN Raise("RuntimeError", access_key_id)
    ELSE IF i > NCredReads THEN [kind |-> "unfinished"]
    ELSE LET out == Iteration(CredRead(i).resp, access_key_id, region_name) IN
            IF out.kind = "next" THEN ScanOutcome(i + 1)
            ELSE IF i < NCredReads THEN [kind |-> "overrun"]
            ELSE out
OutcomeOfResponses ==
    IF MetadataFails(net[2].resp) THEN MetadataError(net[2].resp) ELSE ScanOutcome(1)

(* C4: a failed token request (exception or error status) is no failure of
   the resolution: the token is None, the listing read is issued next, and
   no read of the resolution carries a token header; when a token was
   obtained, every read carries exactly it; and the resolution's result is
   the one the metadata responses alone determine, token or no token. *)
C4_TokenFailureIsSoft ==
    Len(net) >= 1 =>
        /\ net[1].method = "PUT"
        /\ TokenRequestFailed(net[1].resp) =>
              /\ token = None
              /\ Len(net) = 1 => (pc = "get_role_names" /\ result = Pending)
              /\ \A i \in 2..Len(net) : net[i].header = NoHeader
        /\ TokenObtained(net[1].resp) =>
              /\ token = net[1].resp.text
              /\ \A i \in 2..Len(net) : net[i].header = net[1].resp.text
        /\ (pc = "done" /\ result # Pending) => result = OutcomeOfResponses

\* the token request failed and the resolution still produced a session from
\* reads without a token header
C4_Witness ==
    /\ pc = "done"
    /\ Len(net) = 4
    /\ net[1].resp = NetErr
    /\ net[3].header = NoHeader
    /\ result.kind = "session"

\* a token was obtained and sent on the listing read and two credential reads
C4_WitnessToken ==
    /\ pc = "done"
    /\ Len(net) = 4
    /\ net[1].resp = HttpResp(200, "tok1")
    /\ net[2].header = "tok1" /\ net[4].header = "tok1"

\* the i-th credential read was answered with text that is not JSON
MalformedRead(i) == ReadOk(CredRead(i).resp) /\ CredRead(i).resp.text.json = "invalid"

(* C5: a credential payload that is not JSON ends the resolution at that
   role with the parse error (JSONDecodeError): the read that served it is
   the last request of the resolution, and no session and no client come out. *)
C5_MalformedPayloadFails ==
    \A i \in 1..NCredReads :
        MalformedRead(i) =>
            /\ i = NCredReads
            /\ pc = "done"
            /\ result = Raise("JSONDecodeError", None)
            /\ client = NoClient

\* the first of two listed roles served malformed JSON
C5_Witness ==
    /\ Len(roles) = 2
    /\ NCredReads = 1
    /\ MalformedRead(1)
    /\ result.kind = "raise"

(* C6: every resolution ends with a complete session (AccessKeyId,
   SecretAccessKey and Token all present) or with one of MetadataUnavailable
   (RequestException, HTTPError), MalformedCredentialPayload and
   CredentialNotFound (RuntimeError). Every error the resolver raises on a
   payload (JSONDecodeError, AttributeError, KeyError) is counted as
   MalformedCredentialPayload here. *)
C6_CompleteSessionOrKnownError ==
    (pc = "done" /\ result # Pending) =>
        \/ /\ result.kind = "session"
           /\ result.aws_access_key_id # None
           /\ result.aws_secret_access_key # None
           /\ result.aws_session_token # None
        \/ /\ result.kind = "raise"
           /\ result.exc \in {"RequestException", "HTTPError", "RuntimeError",
                               "JSONDecodeError", "AttributeError", "KeyError"}

\* failure as any status outside 200..299
ReadFailed2xx(r) == r.kind = "exception" \/ ~(200 <= r.status_code /\ r.status_code < 300)

(* C7 as stated: a listing or credential read that fails, by an exception or
   by a status outside 200..299, ends the resolution with MetadataUnavailable:
   it is the last request, and the result is that error. *)
C7_Non2xxIsMetadataUnavailable ==
    \A i \in 2..Len(net) :
        ReadFailed2xx(net[i].resp) =>
            /\ i = Len(net)
            /\ pc = "done"
            /\ result.kind = "raise"
            /\ result.exc \in {"RequestException", "HTTPError"}
            /\ client = NoClient

\* failure as a 4xx/5xx status
ReadFailed(r) == r.kind = "exception" \/ (400 <= r.status_code /\ r.status_code < 600)

(* C7 as amended: a listing or credential read that fails, by an exception or
   by a 4xx/5xx status, ends the resolution with MetadataUnavailable: the
   failed read is the last request of the resolution (issued once, nothing
   after it), the result is that error, and there is no session or client. *)
C7_FailedReadIsMetadataUnavailable ==
    \A i \in 2..Len(net) :
        ReadFailed(net[i].resp) =>
            /\ i = Len(net)
            /\ pc = "done"
            /\ result.kind = "raise"
            /\ result.exc \in {"RequestException", "HTTPError"}
            /\ client = NoClient

\* the read for the first of two listed roles got a 404
C7_Witness ==
    /\ Len(roles) = 2
    /\ NCredReads = 1
    /\ CredRead(1).resp = HttpResp(404, NotJson)
    /\ result = Raise("HTTPError", None)

(* C8: the requests of a resolution are one token request, then one listing
   read, then one credential read per listed role in listed order; a read is
   issued only when every read before it was checked and did not match, and
   the resolver's position always agrees with the number of requests issued;
   every resolution, also a later one, issues its own token request and
   listing read. *)
C8_SequentialRequests ==
    /\ Len(net) >= 1 => (net[1].method = "PUT" /\ net[1].path = "latest/api/token")
    /\ Len(net) >= 2 => (net[2].method = "GET" /\ net[2].path = ListingPath)
    /\ NCredReads <= Len(roles)
    /\ \A i \in 1..NCredReads :
          /\ CredRead(i).method = "GET"
          /\ CredRead(i).path = CredPath(roles[i])
          /\ i < NCredReads => ~MatchingRead(i)
    /\ pc = "get_imds_token" => net = <<>>
    /\ pc = "get_role_names" => Len(net) = 1
    /\ pc = "loop" => Len(net) = 1 + idx
    /\ (pc = "done" /\ result # Pending) => Len(net) >= 2

\* a second resolution that issued its own token request, listing read and
\* two credential reads
C8_Witness ==
    /\ ncalls = 2
    /\ pc = "done"
    /\ Len(net) = 4
    /\ net[1].method = "PUT"
    /\ MatchingRead(2)

(* C9: get_s3_client(role_name=R) returns a client authorized by the
   credentials served for the role named R: when the listing names R and the
   read at iam/security-credentials/R served a complete Success set, the
   client carries that set's credentials. *)
C9_ClientUsesNamedRole ==
    (/\ caller = "s3"
     /\ pc = "done"
     /\ Truthy(access_key_id)
     /\ NCredReads >= 1
     /\ CredRead(1).path = CredPath(access_key_id)
     /\ WellFormed(CredRead(1).resp)
     /\ DOMAIN CredRead(1).resp.text.value = {"AccessKeyId", "Code", "SecretAccessKey", "Token"}
     /\ CredRead(1).resp.text.value.Code = "Success")
    => /\ client.kind = "client"
       /\ client.session = SessionOf(CredRead(1).resp.text.value)

(* C10: ensure_dataset returns normally only when the dataset exists; it
   calls create_dataset only right after its lookup reported NotFound; no
   call of it changes a dataset that exists (location, labels, creator); a
   create that finds the dataset created meanwhile by another actor does not
   fail; and load_dataframe_to_bq submits its load only after ensure_dataset
   has returned, to an existing dataset. *)
C10_EnsureDataset ==
    /\ bq_result.kind = "returned" => dataset.exists
    /\ bq_pc = "to_gbq" => dataset.exists
    /\ (bq_result.kind = "raise") => bq_result.exc # "Conflict"
    /\ \A k \in 1..Len(bq_log) :
          /\ bq_log[k].before.exists => bq_log[k].after = bq_log[k].before
          /\ bq_log[k].call = "create_dataset" =>
                /\ k = 2
                /\ bq_log[1].call = "get_dataset" /\ bq_log[1].outcome = "NotFound"
                /\ (k = Len(bq_log) /\ bq_args.fn = "ensure_dataset") => bq_result.kind = "returned"
          /\ bq_log[k].call = "to_gbq" =>
                /\ k = Len(bq_log)
                /\ k >= 2
                /\ bq_log[k].before.exists
                /\ \/ bq_log[k - 1].call = "get_dataset" /\ bq_log[k - 1].outcome = "found"
                   \/ bq_log[k - 1].call = "create_dataset"

\* another actor created the dataset between the lookup and the create, and
\* ensure_dataset returned, leaving the other actor's dataset as it was
C10_Witness ==
    /\ bq_args.fn = "ensure_dataset"
    /\ bq_result.kind = "returned"
    /\ Len(bq_log) = 2
    /\ bq_log[1].outcome = "NotFound"
    /\ bq_log[2].call = "create_dataset" /\ bq_log[2].outcome = "Conflict"
    /\ dataset.created_by = "other"
    /\ dataset.location # bq_args.location

====
